---- MODULE Spec2Model ----
(***************************************************************************)
(* The lease expiration manager of vault (ExpirationManager): durable      *)
(* lease entries in a barrier view, one time.Timer per expiring lease in   *)
(* the pending table, explicit Register / Renew / Revoke / RevokePrefix /  *)
(* Restore / Stop and the timer-driven expireID with bounded retry.        *)
(*                                                                         *)
(* Every public operation and every timer callback is a thread whose       *)
(* position (pc) advances by one storage call, one router / token-store    *)
(* call or one critical section of pendingLock per step, so that the       *)
(* interleavings of the goroutines are the behaviours of the model.        *)
(* Time is in seconds.                                                     *)
(***************************************************************************)
EXTENDS Integers, Sequences, FiniteSets, TLC

\* ---------------------------------------------------------------- bounds

\* Number of concurrent requester threads.
NumClients == 2
\* Number of events the environment chooses in a run: the Register that made
\* the lease persisted before start-up, if any, the public operations started
\* after the start-up Restore (a Restore after a Stop apart), and the failed
\* storage, router and token-store calls.
MaxOps == 3
\* Number of leases of a run: the one persisted before start-up, if any,
\* and those Register mints (fresh UUIDs).
MaxLeases == 1
\* Number of timer callbacks (expireID goroutines) that may be started.
MaxFires == 2
\* Number of time.Timer objects that may be created.
MaxTimers == 3
\* Unit ticks of the clock stop here; jumps to a timer's or sleeper's
\* deadline are not limited.
MaxTime == 3
\* Longest lease duration a backend hands out, in seconds.
MaxLease == 1
\* Longest grace period a backend hands out, in seconds.
MaxGrace == 0

\* ------------------------------------------------------- program constants

maxRevokeAttempts == 6
revokeRetryBase == 10
minRevokeDelay == 5

\* ------------------------------------------------------------------ values

\* The clock reading at construction; the zero time.Time is 0.
StartTime == 2

\* Request paths: "a" and "ab" (strings are sequences of characters, so that
\* prefixes can be taken).
Paths == {<<"a">>, <<"a", "b">>}

\* generateUUID: the n-th fresh UUID.
UUID(n) == <<ToString(n)>>

\* path.Join(req.Path, uuid) for a clean path.
Join(p, u) == p \o <<"/">> \o u

\* A lease persisted before start-up (S5, S7 of the specification) has a UUID
\* of its own.
OldID == Join(<<"a">>, UUID(0))

AllIds == {Join(p, UUID(n)) : p \in Paths, n \in 0..MaxLeases}

NoID == <<>>

\* The path of a lease id: everything before its last two elements, "/" and
\* the uuid.
PathOf(id) == SubSeq(id, 1, Len(id) - 2)

\* leaseEntry; Data and IssueTime are never read by the manager and are left
\* out, VaultID is the key, lease and grace are the two durations of Secret.
\* renewed is not a field of the code: it marks the entries Renew wrote.
NilEntry == [path |-> <<>>, loginToken |-> "", lease |-> 0, grace |-> 0,
             expire |-> 0, renewed |-> FALSE]

MkEntry(p, tok, l, g, e, r) == [path |-> p, loginToken |-> tok, lease |-> l,
                                grace |-> g, expire |-> e, renewed |-> r]

\* Storage contents at start-up: nothing, a lease that expired before the
\* restart, a non-expiring lease, a lease and a login-token lease still
\* running.
OldEntries ==
    { NilEntry,
      MkEntry(<<"a">>, "", 1, 0, StartTime - 1, FALSE),
      MkEntry(<<"a">>, "", 0, 0, 0, FALSE),
      MkEntry(<<"a">>, "", 1, 0, StartTime + 1, FALSE),
      MkEntry(<<"a">>, "t1", 1, 0, StartTime + 1, FALSE) }

InitialStores ==
    { [k \in AllIds |-> IF k = OldID THEN e ELSE NilEntry] : e \in OldEntries }

Clients == 1..NumClients
Threads == 1..(NumClients + MaxFires)

IdleThread == [op |-> "none", pc |-> "idle", id |-> NoID, le |-> NilEntry,
               prefix |-> <<>>, keys |-> <<>>, idx |-> 0, attempt |-> 0,
               wake |-> 0, res |-> "", eff |-> {}, late |-> FALSE]

VARIABLES
    now,            \* time.Now().UTC()
    store,          \* m.view: lease id -> leaseEntry
    pending,        \* m.pending: lease id -> index of its *time.Timer
    timers,         \* every time.Timer created: [id, due, armed]
    lock,           \* m.pendingLock: 0 or the thread holding it
    thr,            \* the threads: requesters and timer callbacks
    phase,          \* "new", "running", "stopped" or "failed" (Restore failed)
    ops,            \* events so far: operations started, failed calls
    minted,         \* leases so far: the old one and the UUIDs generated
    issued,         \* lease ids callers know: returned by Register, or old
    fired,          \* timer callbacks started so far
    routerLog,      \* revoke requests the router received, per lease id
    tokenLog,       \* RevokeTree calls the token store received, per lease id
    storageFaulty,  \* the barrier view may fail calls in this run
    routerFaulty,   \* the router / token store may fail calls in this run
    outage,         \* the faulty subsystem fails as often as it likes
    hist            \* history: what has returned, the state at the last Stop

vars == <<now, store, pending, timers, lock, thr, phase, ops, minted, issued,
          fired, routerLog, tokenLog, storageFaulty, routerFaulty, outage,
          hist>>

\* ----------------------------------------------------------------- helpers

Present(e) == e # NilEntry

\* le.ExpireTime.IsZero()
IsZero(x) == x = 0

\* resp.Secret.Lease + resp.Secret.LeaseGracePeriod
LeaseTotal(e) == e.lease + e.grace

\* strings.HasSuffix(prefix, "/")
HasSlash(p) == Len(p) > 0 /\ p[Len(p)] = "/"

\* strings.HasPrefix(k, p)
HasPrefix(k, p) == Len(p) <= Len(k) /\ SubSeq(k, 1, Len(p)) = p

\* One more failed call: an event of the run, unless the subsystem is out
\* for the whole run.
Failure ==
    IF outage THEN ops' = ops ELSE ops < MaxOps /\ ops' = ops + 1

\* A call of the barrier view fails.
StorageFails == storageFaulty /\ Failure

\* A call of the router or of the token store fails.
RouterFails == routerFaulty /\ Failure

\* A thread that has returned r; what the call did (eff) stays readable.
Finish(t, r, eff) ==
    [thr[t] EXCEPT !.pc = "done", !.res = r, !.eff = eff, !.le = NilEntry,
                   !.wake = 0]

\* Every enumeration of a set of keys: the order of a key listing is not
\* specified.
Orders(S) ==
    { q \in [1..Cardinality(S) -> S] : \A i, j \in 1..Cardinality(S) :
                                           q[i] = q[j] => i = j }

\* time.AfterFunc(d, f): one more timer, due d from now.
NewTimer(id, d) == [id |-> id, due |-> now + d, armed |-> TRUE]

\* A timer that has fired or was stopped: when it was due no longer matters.
Stopped(tm) == [tm EXCEPT !.armed = FALSE, !.due = 0]

\* No Stop since the manager was last restored.
NoStop ==
    [called |-> FALSE, quiet |-> FALSE, ids |-> {},
     store |-> [k \in AllIds |-> NilEntry]]

\* Nothing has returned yet.
NoHistory ==
    [revoked |-> {}, expired |-> {}, renewed |-> {}, stop |-> NoStop,
     unclean |-> FALSE]

\* -------------------------------------------------------------------- Init

Init ==
    /\ now = StartTime
    /\ store \in InitialStores
    /\ pending = [k \in AllIds |-> 0]
    /\ timers = <<>>
    /\ lock = 0
    /\ thr = [t \in Threads |-> IdleThread]
    /\ phase = "new"
    /\ ops = IF Present(store[OldID]) THEN 1 ELSE 0
    /\ minted = IF Present(store[OldID]) THEN 1 ELSE 0
    /\ issued = {OldID}
    /\ fired = 0
    /\ routerLog = [k \in AllIds |-> 0]
    /\ tokenLog = [k \in AllIds |-> 0]
    /\ storageFaulty \in BOOLEAN
    /\ routerFaulty \in BOOLEAN
    /\ ~(storageFaulty /\ routerFaulty)
    /\ outage = FALSE
    /\ hist = NoHistory

\* A return takes no time: while a thread is returning (pc = "done", its
\* result and what the call did still readable), nothing else happens.
Settled == \A t \in Threads : thr[t].pc # "done"

\* No thread is in the middle of anything.
Quiesced == \A t \in Threads : thr[t].pc = "idle"

\* The history once thread t has returned: the leases a Revoke (explicit or
\* of a timer callback) has returned success for, among them (expired) the
\* leases a timer callback has revoked, the leases a Renew has
\* returned a new lease for after resetting their timer; a Restore that
\* returns closes the Stop before it. (unclean: some Stop was called with
\* an operation or a timer callback in progress.)
Returned(t) ==
    LET me == thr[t] IN
    [revoked |-> IF \/ me.op = "Revoke" /\ me.res = "ok"
                    \/ me.op = "expireID" /\ me.res = "revoked"
                 THEN hist.revoked \cup {me.id} ELSE hist.revoked,
     expired |-> IF me.op = "expireID" /\ me.res = "revoked"
                 THEN hist.expired \cup {me.id} ELSE hist.expired,
     renewed |-> IF me.op = "Renew" /\ me.res = "ok"
                       /\ <<"reset", me.id>> \in me.eff
                 THEN hist.renewed \cup {me.id} ELSE hist.renewed,
     stop |-> IF me.op = "Restore" THEN NoStop ELSE hist.stop,
     unclean |-> hist.unclean]

\* The thread has returned: its frame is gone.
Return(t) ==
    /\ thr[t].pc = "done"
    /\ thr' = [thr EXCEPT ![t] = IdleThread]
    /\ hist' = Returned(t)
    /\ UNCHANGED <<now, store, pending, timers, lock, phase, ops, minted,
                   issued, fired, routerLog, tokenLog, storageFaulty,
                   routerFaulty, outage>>

\* Requester thread c is free to start a call. The requesters are
\* interchangeable: the free one of the least index takes the next call.
Free(c) ==
    /\ c \in Clients
    /\ thr[c].pc = "idle"
    /\ \A d \in Clients : thr[d].pc = "idle" => c <= d

\* A requester thread may start a call: the manager is in service.
CanCall(c) ==
    /\ Free(c)
    /\ phase = "running"
    /\ ops < MaxOps

\* ---------------------------------------------------------------- Register

\* logical.Secret.Validate: a negative lease or grace period is rejected.
Validate(l, g) == l >= 0 /\ g >= 0

\* What a backend may answer: no response, a response without a secret, or
\* a secret with a lease and a grace period (a negative lease is malformed).
Responses ==
    {[kind |-> "nil", lease |-> 0, grace |-> 0],
     [kind |-> "nosecret", lease |-> 0, grace |-> 0]}
        \cup {[kind |-> "secret", lease |-> l, grace |-> g] :
                 l \in (-1)..MaxLease, g \in 0..MaxGrace}

\* resp == nil || resp.Secret == nil || resp.Secret.Lease == 0
NoLease(resp) == resp.kind # "secret" \/ resp.lease = 0

\* The threads in a Register that has still to arm its timer.
Registering ==
    {t \in Threads : thr[t].pc \in {"reg_persist", "reg_arm"}}

\* Register, to the construction of the lease entry. (A lease is registered
\* only while the run has a timer left for it.)
RegisterCall(c) ==
    /\ Settled
    /\ CanCall(c)
    /\ \E p \in Paths, resp \in Responses :
        LET start == [IdleThread EXCEPT !.op = "Register"] IN
        IF NoLease(resp)
        THEN /\ thr' = [thr EXCEPT ![c] = [start EXCEPT !.pc = "done",
                                                       !.res = "empty"]]
             /\ UNCHANGED minted
        ELSE IF ~Validate(resp.lease, resp.grace)
        THEN /\ thr' = [thr EXCEPT ![c] = [start EXCEPT !.pc = "done",
                                                       !.res = "err_invalid"]]
             /\ UNCHANGED minted
        ELSE /\ minted < MaxLeases
             /\ Len(timers) + Cardinality(Registering) < MaxTimers
             /\ minted' = minted + 1
             /\ thr' = [thr EXCEPT ![c] =
                    [start EXCEPT
                       !.pc = "reg_persist",
                       !.id = Join(p, UUID(minted + 1)),
                       !.le = MkEntry(p, "", resp.lease, resp.grace,
                                      IF resp.lease > 0
                                      THEN now + resp.lease + resp.grace
                                      ELSE 0,
                                      FALSE)]]
    /\ ops' = ops + 1
    /\ UNCHANGED <<now, store, pending, timers, lock, phase, issued, fired,
                   routerLog, tokenLog, storageFaulty, routerFaulty,
                   outage, hist>>

\* m.persistEntry(&le)
RegisterPersist(t) ==
    /\ Settled
    /\ thr[t].pc = "reg_persist"
    /\ \/ /\ StorageFails
          /\ thr' = [thr EXCEPT ![t] = Finish(t, "err_persist", thr[t].eff)]
          /\ UNCHANGED <<store, issued>>
       \/ /\ UNCHANGED ops
          /\ store' = [store EXCEPT ![thr[t].id] = thr[t].le]
          /\ IF ~IsZero(thr[t].le.expire)
             THEN /\ thr' = [thr EXCEPT ![t].pc = "reg_arm",
                                        ![t].eff = @ \cup {<<"put", thr[t].id>>}]
                  /\ UNCHANGED issued
             ELSE /\ thr' = [thr EXCEPT ![t] =
                        Finish(t, "ok", thr[t].eff \cup {<<"put", thr[t].id>>})]
                  /\ issued' = issued \cup {thr[t].id}
    /\ UNCHANGED <<now, pending, timers, lock, phase, minted, fired,
                   routerLog, tokenLog, storageFaulty, routerFaulty,
                   outage, hist>>

\* RegisterArm as it would be if Register returned the lease id without
\* arming a timer for it.
RegisterArmNoTimer(t) ==
    /\ Settled
    /\ thr[t].pc = "reg_arm"
    /\ lock = 0
    /\ thr' = [thr EXCEPT ![t] = Finish(t, "ok", thr[t].eff)]
    /\ issued' = issued \cup {thr[t].id}
    /\ UNCHANGED <<now, store, pending, timers, lock, phase, ops, minted,
                   fired, routerLog, tokenLog, storageFaulty, routerFaulty,
                   outage, hist>>

\* The critical section that arms the revocation timer, and the return.
RegisterArm(t) ==
    /\ Settled
    /\ thr[t].pc = "reg_arm"
    /\ lock = 0
    /\ Len(timers) < MaxTimers
    /\ timers' = Append(timers, NewTimer(thr[t].id, LeaseTotal(thr[t].le)))
    /\ pending' = [pending EXCEPT ![thr[t].id] = Len(timers) + 1]
    /\ thr' = [thr EXCEPT ![t] =
           Finish(t, "ok", thr[t].eff \cup {<<"arm", thr[t].id>>})]
    /\ issued' = issued \cup {thr[t].id}
    /\ UNCHANGED <<now, store, lock, phase, ops, minted, fired, routerLog,
                   tokenLog, storageFaulty, routerFaulty, outage, hist>>

\* ------------------------------------------------------------------ Revoke

\* AfterRevoke as it would be if the loop of RevokePrefix went on to the
\* next key after a failed Revoke instead of returning its error.
AfterRevokeContinues(t, e, eff) ==
    LET me == [thr[t] EXCEPT !.eff = eff, !.le = NilEntry] IN
    CASE thr[t].op = "RevokePrefix" ->
             IF me.idx + 1 < Len(me.keys)
             THEN [me EXCEPT !.pc = "rv_load", !.idx = @ + 1,
                             !.id = me.keys[me.idx + 2]]
             ELSE [me EXCEPT !.pc = "done", !.res = e]
      [] thr[t].op = "expireID" ->
             IF e = "ok"
             THEN [me EXCEPT !.pc = "done", !.res = "revoked"]
             ELSE [me EXCEPT !.pc = "ex_sleep", !.res = e,
                             !.wake = now + (2 ^ me.attempt) * revokeRetryBase]
      [] OTHER -> [me EXCEPT !.pc = "done", !.res = e]

\* Where a thread goes when its Revoke(vaultID) returns e: back to the
\* caller of Revoke, to the loop of RevokePrefix or to the loop of expireID.
AfterRevoke(t, e, eff) ==
    LET me == [thr[t] EXCEPT !.eff = eff, !.le = NilEntry] IN
    CASE thr[t].op = "RevokePrefix" ->
             IF e # "ok"
             THEN [me EXCEPT !.pc = "done", !.res = e]
             ELSE IF me.idx + 1 < Len(me.keys)
             THEN [me EXCEPT !.pc = "rv_load", !.idx = @ + 1,
                             !.id = me.keys[me.idx + 2]]
             ELSE [me EXCEPT !.pc = "done", !.res = "ok"]
      [] thr[t].op = "expireID" ->
             IF e = "ok"
             THEN [me EXCEPT !.pc = "done", !.res = "revoked"]
             ELSE [me EXCEPT !.pc = "ex_sleep", !.res = e,
                             !.wake = now + (2 ^ me.attempt) * revokeRetryBase]
      [] OTHER -> [me EXCEPT !.pc = "done", !.res = e]

RevokeCall(c) ==
    /\ Settled
    /\ CanCall(c)
    /\ \E id \in issued :
        thr' = [thr EXCEPT ![c] = [IdleThread EXCEPT
                                      !.op = "Revoke", !.pc = "rv_load",
                                      !.id = id,
                                      !.late = id \in hist.revoked]]
    /\ ops' = ops + 1
    /\ UNCHANGED <<now, store, pending, timers, lock, phase, minted, issued,
                   fired, routerLog, tokenLog, storageFaulty,
                   routerFaulty, outage, hist>>

\* m.loadEntry(vaultID), and the return when there is no entry.
RevokeLoad(t) ==
    /\ Settled
    /\ thr[t].pc = "rv_load"
    /\ \/ /\ StorageFails
          /\ thr' = [thr EXCEPT ![t] = AfterRevoke(t, "err_load", thr[t].eff)]
       \/ /\ UNCHANGED ops
          /\ IF Present(store[thr[t].id])
             THEN thr' = [thr EXCEPT ![t].pc = "rv_dispatch",
                                     ![t].le = store[thr[t].id]]
             ELSE thr' = [thr EXCEPT ![t] = AfterRevoke(t, "ok", thr[t].eff)]
    /\ UNCHANGED <<now, store, pending, timers, lock, phase, minted, issued,
                   fired, routerLog, tokenLog, storageFaulty,
                   routerFaulty, outage, hist>>

\* revokeEntry as it would be if the entry were deleted before the backend
\* has acknowledged the revocation.
revokeEntryDeletesFirst(t) ==
    /\ Settled
    /\ thr[t].pc = "rv_dispatch"
    /\ IF thr[t].le.loginToken # ""
       THEN /\ tokenLog' = [tokenLog EXCEPT ![thr[t].id] = @ + 1]
            /\ UNCHANGED routerLog
       ELSE /\ routerLog' = [routerLog EXCEPT ![thr[t].id] = @ + 1]
            /\ UNCHANGED tokenLog
    /\ store' = [store EXCEPT ![thr[t].id] = NilEntry]
    /\ \/ /\ RouterFails
          /\ thr' = [thr EXCEPT ![t] = AfterRevoke(t, "err_revoke", thr[t].eff)]
       \/ /\ UNCHANGED ops
          /\ thr' = [thr EXCEPT ![t].pc = "rv_delete",
                                ![t].eff = @ \cup {<<"revoke", thr[t].id>>}]
    /\ UNCHANGED <<now, pending, timers, lock, phase, minted, issued, fired,
                   storageFaulty, routerFaulty, outage, hist>>

\* revokeEntry as it would be if every revocation went to the router, the
\* login token of the entry ignored.
revokeEntryAlwaysRouter(t) ==
    /\ Settled
    /\ thr[t].pc = "rv_dispatch"
    /\ routerLog' = [routerLog EXCEPT ![thr[t].id] = @ + 1]
    /\ \/ /\ RouterFails
          /\ thr' = [thr EXCEPT ![t] = AfterRevoke(t, "err_revoke", thr[t].eff)]
       \/ /\ UNCHANGED ops
          /\ thr' = [thr EXCEPT ![t].pc = "rv_delete",
                                ![t].eff = @ \cup {<<"revoke", thr[t].id>>}]
    /\ UNCHANGED <<now, store, pending, timers, lock, phase, minted, issued,
                   fired, tokenLog, storageFaulty, routerFaulty, outage,
                   hist>>

\* m.revokeEntry(le): the token store for a login token, else the router.
revokeEntry(t) ==
    /\ Settled
    /\ thr[t].pc = "rv_dispatch"
    /\ IF thr[t].le.loginToken # ""
       THEN /\ tokenLog' = [tokenLog EXCEPT ![thr[t].id] = @ + 1]
            /\ UNCHANGED routerLog
       ELSE /\ routerLog' = [routerLog EXCEPT ![thr[t].id] = @ + 1]
            /\ UNCHANGED tokenLog
    /\ \/ /\ RouterFails
          /\ thr' = [thr EXCEPT ![t] = AfterRevoke(t, "err_revoke", thr[t].eff)]
       \/ /\ UNCHANGED ops
          /\ thr' = [thr EXCEPT ![t].pc = "rv_delete",
                                ![t].eff = @ \cup {<<"revoke", thr[t].id>>}]
    /\ UNCHANGED <<now, store, pending, timers, lock, phase, minted, issued,
                   fired, storageFaulty, routerFaulty, outage, hist>>

\* m.deleteEntry(vaultID)
RevokeDelete(t) ==
    /\ Settled
    /\ thr[t].pc = "rv_delete"
    /\ \/ /\ StorageFails
          /\ thr' = [thr EXCEPT ![t] = AfterRevoke(t, "err_delete", thr[t].eff)]
          /\ UNCHANGED store
       \/ /\ UNCHANGED ops
          /\ store' = [store EXCEPT ![thr[t].id] = NilEntry]
          /\ thr' = [thr EXCEPT ![t].pc = "rv_clear",
                                ![t].eff = @ \cup {<<"delete", thr[t].id>>}]
    /\ UNCHANGED <<now, pending, timers, lock, phase, minted, issued, fired,
                   routerLog, tokenLog, storageFaulty, routerFaulty,
                   outage, hist>>

\* The critical section that stops and removes the timer, and the return.
RevokeClear(t) ==
    /\ Settled
    /\ thr[t].pc = "rv_clear"
    /\ lock = 0
    /\ IF pending[thr[t].id] # 0
       THEN /\ timers' = [timers EXCEPT ![pending[thr[t].id]] = Stopped(@)]
            /\ pending' = [pending EXCEPT ![thr[t].id] = 0]
            /\ thr' = [thr EXCEPT ![t] =
                   AfterRevoke(t, "ok", thr[t].eff \cup {<<"stop", thr[t].id>>})]
       ELSE /\ thr' = [thr EXCEPT ![t] = AfterRevoke(t, "ok", thr[t].eff)]
            /\ UNCHANGED <<timers, pending>>
    /\ UNCHANGED <<now, store, lock, phase, ops, minted, issued, fired,
                   routerLog, tokenLog, storageFaulty, routerFaulty,
                   outage, hist>>

\* ---------------------------------------------------------------- expireID

\* A timer fires: the runtime starts its function, expireID(le.VaultID), in
\* a goroutine of its own.
TimerFire(k) ==
    /\ Settled
    /\ k \in 1..Len(timers)
    /\ timers[k].armed
    /\ now >= timers[k].due
    /\ fired < MaxFires
    /\ timers' = [timers EXCEPT ![k] = Stopped(@)]
    /\ fired' = fired + 1
    /\ thr' = [thr EXCEPT ![NumClients + fired + 1] =
           [IdleThread EXCEPT !.op = "expireID", !.pc = "ex_clear",
                              !.id = timers[k].id]]
    /\ UNCHANGED <<now, store, pending, lock, phase, ops, minted, issued,
                   routerLog, tokenLog, storageFaulty, routerFaulty,
                   outage, hist>>

\* expireClear as it would be if expireID kept the mutex after clearing the
\* id, across its calls of Revoke.
expireClearKeepsLock(t) ==
    /\ Settled
    /\ thr[t].pc = "ex_clear"
    /\ lock = 0
    /\ lock' = t
    /\ pending' = [pending EXCEPT ![thr[t].id] = 0]
    /\ thr' = [thr EXCEPT ![t].pc = "rv_load",
                          ![t].late = thr[t].id \in hist.revoked]
    /\ UNCHANGED <<now, store, timers, phase, ops, minted, issued,
                   fired, routerLog, tokenLog, storageFaulty,
                   routerFaulty, outage, hist>>

\* The critical section that clears the id from the pending table.
expireClear(t) ==
    /\ Settled
    /\ thr[t].pc = "ex_clear"
    /\ lock = 0
    /\ pending' = [pending EXCEPT ![thr[t].id] = 0]
    /\ thr' = [thr EXCEPT ![t].pc = "rv_load",
                          ![t].late = thr[t].id \in hist.revoked]
    /\ UNCHANGED <<now, store, timers, lock, phase, ops, minted, issued,
                   fired, routerLog, tokenLog, storageFaulty,
                   routerFaulty, outage, hist>>

\* expireWake as it would be if the loop of expireID ran while
\* attempt <= maxRevokeAttempts: one attempt more.
expireWakeOnceMore(t) ==
    /\ Settled
    /\ thr[t].pc = "ex_sleep"
    /\ now >= thr[t].wake
    /\ IF thr[t].attempt < maxRevokeAttempts
       THEN thr' = [thr EXCEPT ![t].pc = "rv_load", ![t].attempt = @ + 1,
                               ![t].wake = 0,
                               ![t].late = thr[t].id \in hist.revoked]
       ELSE thr' = [thr EXCEPT ![t] =
                [Finish(t, "abandoned", thr[t].eff) EXCEPT !.attempt = @ + 1]]
    /\ UNCHANGED <<now, store, pending, timers, lock, phase, ops, minted,
                   issued, fired, routerLog, tokenLog, storageFaulty,
                   routerFaulty, outage, hist>>

\* time.Sleep((1 << attempt) * revokeRetryBase) is over: the next attempt,
\* or the end of the loop.
expireWake(t) ==
    /\ Settled
    /\ thr[t].pc = "ex_sleep"
    /\ now >= thr[t].wake
    /\ IF thr[t].attempt + 1 < maxRevokeAttempts
       THEN thr' = [thr EXCEPT ![t].pc = "rv_load", ![t].attempt = @ + 1,
                               ![t].wake = 0,
                               ![t].late = thr[t].id \in hist.revoked]
       ELSE thr' = [thr EXCEPT ![t] =
                [Finish(t, "abandoned", thr[t].eff) EXCEPT !.attempt = @ + 1]]
    /\ UNCHANGED <<now, store, pending, timers, lock, phase, ops, minted,
                   issued, fired, routerLog, tokenLog, storageFaulty,
                   routerFaulty, outage, hist>>

\* -------------------------------------------------------------------- time

\* The instants something waits for: armed timers and sleeping callbacks.
Deadlines ==
    {timers[k].due : k \in {j \in 1..Len(timers) : timers[j].armed}}
        \cup {thr[t].wake : t \in {u \in Threads : thr[u].pc = "ex_sleep"}}

\* One second passes.
Tick ==
    /\ Settled
    /\ now < MaxTime
    /\ now' = now + 1
    /\ UNCHANGED <<store, pending, timers, lock, thr, phase, ops, minted,
                   issued, fired, routerLog, tokenLog, storageFaulty,
                   routerFaulty, outage, hist>>

\* Time passes up to the next deadline.
Jump ==
    /\ Settled
    /\ \E d \in Deadlines :
        /\ d > now
        /\ \A e \in Deadlines : e > now => d <= e
        /\ now' = d
    /\ UNCHANGED <<store, pending, timers, lock, thr, phase, ops, minted,
                   issued, fired, routerLog, tokenLog, storageFaulty,
                   routerFaulty, outage, hist>>

\* ------------------------------------------------------------------- Renew

RenewCall(c) ==
    /\ Settled
    /\ CanCall(c)
    /\ \E id \in issued :
        thr' = [thr EXCEPT ![c] = [IdleThread EXCEPT !.op = "Renew",
                                                     !.pc = "rn_load",
                                                     !.id = id]]
    /\ ops' = ops + 1
    /\ UNCHANGED <<now, store, pending, timers, lock, phase, minted, issued,
                   fired, routerLog, tokenLog, storageFaulty,
                   routerFaulty, outage, hist>>

\* m.loadEntry(vaultID), the not-found and the expired checks.
RenewLoad(t) ==
    /\ Settled
    /\ thr[t].pc = "rn_load"
    /\ \/ /\ StorageFails
          /\ thr' = [thr EXCEPT ![t] = Finish(t, "err_load", thr[t].eff)]
       \/ /\ UNCHANGED ops
          /\ IF ~Present(store[thr[t].id])
             THEN thr' = [thr EXCEPT ![t] = Finish(t, "not_found", thr[t].eff)]
             ELSE IF store[thr[t].id].expire < now
             THEN thr' = [thr EXCEPT ![t] = Finish(t, "expired", thr[t].eff)]
             ELSE thr' = [thr EXCEPT ![t].pc = "rn_route",
                                     ![t].le = store[thr[t].id]]
    /\ UNCHANGED <<now, store, pending, timers, lock, phase, minted, issued,
                   fired, routerLog, tokenLog, storageFaulty,
                   routerFaulty, outage, hist>>

\* m.renewEntry(le, increment) through the router, the fast path of a
\* response without a lease, and the validation of the new secret.
renewEntry(t) ==
    /\ Settled
    /\ thr[t].pc = "rn_route"
    /\ \/ /\ RouterFails
          /\ thr' = [thr EXCEPT ![t] = Finish(t, "err_renew", thr[t].eff)]
       \/ /\ UNCHANGED ops
          /\ \E resp \in Responses :
               IF NoLease(resp)
               THEN thr' = [thr EXCEPT ![t] = Finish(t, "declined", thr[t].eff)]
               ELSE IF ~Validate(resp.lease, resp.grace)
               THEN thr' = [thr EXCEPT ![t] =
                        Finish(t, "err_invalid", thr[t].eff)]
               ELSE thr' = [thr EXCEPT ![t].pc = "rn_persist",
                                       ![t].le.lease = resp.lease,
                                       ![t].le.grace = resp.grace,
                                       ![t].eff = @ \cup {<<"renew", thr[t].id>>}]
    /\ UNCHANGED <<now, store, pending, timers, lock, phase, minted, issued,
                   fired, routerLog, tokenLog, storageFaulty,
                   routerFaulty, outage, hist>>

\* RenewPersist as it would be if the timer were reset before the entry is
\* persisted: a failed persist then leaves the timer reset.
RenewPersistResetsFirst(t) ==
    /\ Settled
    /\ thr[t].pc = "rn_persist"
    /\ lock = 0
    /\ IF pending[thr[t].id] # 0
       THEN timers' = [timers EXCEPT
                          ![pending[thr[t].id]].due =
                              now + LeaseTotal(thr[t].le),
                          ![pending[thr[t].id]].armed = TRUE]
       ELSE UNCHANGED timers
    /\ \/ /\ StorageFails
          /\ thr' = [thr EXCEPT ![t] = Finish(t, "err_persist", thr[t].eff)]
          /\ UNCHANGED store
       \/ /\ UNCHANGED ops
          /\ LET le == [thr[t].le EXCEPT
                           !.expire = IF thr[t].le.lease > 0
                                      THEN now + LeaseTotal(thr[t].le) ELSE 0,
                           !.renewed = TRUE] IN
             /\ store' = [store EXCEPT ![thr[t].id] = le]
             /\ thr' = [thr EXCEPT ![t].pc = "rn_reset", ![t].le = le,
                                   ![t].eff = @ \cup {<<"put", thr[t].id>>}]
    /\ UNCHANGED <<now, pending, lock, phase, minted, issued, fired,
                   routerLog, tokenLog, storageFaulty, routerFaulty,
                   outage, hist>>

\* The new expiry time, read from the clock now, and m.persistEntry(le).
RenewPersist(t) ==
    /\ Settled
    /\ thr[t].pc = "rn_persist"
    /\ \/ /\ StorageFails
          /\ thr' = [thr EXCEPT ![t] = Finish(t, "err_persist", thr[t].eff)]
          /\ UNCHANGED store
       \/ /\ UNCHANGED ops
          /\ LET le == [thr[t].le EXCEPT
                           !.expire = IF thr[t].le.lease > 0
                                      THEN now + LeaseTotal(thr[t].le) ELSE 0,
                           !.renewed = TRUE] IN
             /\ store' = [store EXCEPT ![thr[t].id] = le]
             /\ thr' = [thr EXCEPT ![t].pc = "rn_reset", ![t].le = le,
                                   ![t].eff = @ \cup {<<"put", thr[t].id>>}]
    /\ UNCHANGED <<now, pending, timers, lock, phase, minted, issued, fired,
                   routerLog, tokenLog, storageFaulty, routerFaulty,
                   outage, hist>>

\* The critical section that resets the timer, if the table has one, and
\* the return. timer.Reset arms the timer again whether or not it has fired.
RenewReset(t) ==
    /\ Settled
    /\ thr[t].pc = "rn_reset"
    /\ lock = 0
    /\ IF pending[thr[t].id] # 0
       THEN /\ timers' = [timers EXCEPT
                             ![pending[thr[t].id]].due =
                                 now + LeaseTotal(thr[t].le),
                             ![pending[thr[t].id]].armed = TRUE]
            /\ thr' = [thr EXCEPT ![t] =
                   [Finish(t, "ok", thr[t].eff \cup {<<"reset", thr[t].id>>})
                       EXCEPT !.le = thr[t].le]]
       ELSE /\ thr' = [thr EXCEPT ![t] =
                   [Finish(t, "ok", thr[t].eff) EXCEPT !.le = thr[t].le]]
            /\ UNCHANGED timers
    /\ UNCHANGED <<now, store, pending, lock, phase, ops, minted, issued,
                   fired, routerLog, tokenLog, storageFaulty,
                   routerFaulty, outage, hist>>

\* ------------------------------------------------------------ RevokePrefix

\* The prefixes callers pass, with and without the trailing slash.
Prefixes == Paths \cup {p \o <<"/">> : p \in Paths}

\* Ensure there is a trailing slash.
Normalize(p) == IF HasSlash(p) THEN p ELSE p \o <<"/">>

\* The keys of the sub-view at a prefix, as full lease ids (prefix + suffix).
KeysUnder(p) == {k \in AllIds : Present(store[k]) /\ HasPrefix(k, p)}

RevokePrefixCall(c) ==
    /\ Settled
    /\ CanCall(c)
    /\ \E p \in Prefixes :
        thr' = [thr EXCEPT ![c] = [IdleThread EXCEPT !.op = "RevokePrefix",
                                                     !.pc = "rp_scan",
                                                     !.prefix = Normalize(p)]]
    /\ ops' = ops + 1
    /\ UNCHANGED <<now, store, pending, timers, lock, phase, minted, issued,
                   fired, routerLog, tokenLog, storageFaulty,
                   routerFaulty, outage, hist>>

\* CollectKeys(m.view.SubView(prefix)), and the return when there is no key.
RevokePrefixScan(t) ==
    /\ Settled
    /\ thr[t].pc = "rp_scan"
    /\ \/ /\ StorageFails
          /\ thr' = [thr EXCEPT ![t] = Finish(t, "err_scan", thr[t].eff)]
       \/ /\ UNCHANGED ops
          /\ \E q \in Orders(KeysUnder(thr[t].prefix)) :
               IF Len(q) = 0
               THEN thr' = [thr EXCEPT ![t] = Finish(t, "ok", thr[t].eff)]
               ELSE thr' = [thr EXCEPT ![t].pc = "rv_load", ![t].keys = q,
                                       ![t].idx = 0, ![t].id = q[1]]
    /\ UNCHANGED <<now, store, pending, timers, lock, phase, minted, issued,
                   fired, routerLog, tokenLog, storageFaulty,
                   routerFaulty, outage, hist>>

\* -------------------------------------------------------------------- Stop

\* Stop: one critical section stops every timer of the table and replaces
\* the table by an empty one. Requests are quiesced before the view is
\* sealed: no call starts after Stop until the manager is restored.
Stop(c) ==
    /\ Settled
    /\ Free(c)
    /\ phase \in {"running", "stopped"}
    /\ ops < MaxOps
    /\ lock = 0
    /\ timers' = [k \in 1..Len(timers) |->
                     IF \E id \in AllIds : pending[id] = k
                     THEN Stopped(timers[k])
                     ELSE timers[k]]
    /\ pending' = [k \in AllIds |-> 0]
    /\ phase' = "stopped"
    /\ ops' = ops + 1
    /\ thr' = [thr EXCEPT ![c] = [IdleThread EXCEPT !.op = "Stop",
                                                    !.pc = "done",
                                                    !.res = "ok"]]
    /\ LET quiet == \A t \in Threads : thr[t].pc = "idle" IN
       hist' = [hist EXCEPT
                   !.stop = IF phase = "running"
                            THEN [called |-> TRUE, quiet |-> quiet,
                                  ids |-> {id \in AllIds : pending[id] # 0},
                                  store |-> store]
                            ELSE @,
                   !.unclean = @ \/ ~quiet]
    /\ UNCHANGED <<now, store, lock, minted, issued, fired, routerLog,
                   tokenLog, storageFaulty, routerFaulty, outage>>

\* ----------------------------------------------------------------- Restore

\* Restore takes pendingLock and keeps it to its return. It runs when the
\* manager is set up (Core.setupExpiration), before any request is served,
\* or after a Stop. (It is called only while the run has timers left for
\* the stored entries.)
RestoreCall(c) ==
    /\ Settled
    /\ Free(c)
    /\ \A d \in Clients : thr[d].pc = "idle"
    /\ phase \in {"new", "stopped"}
    /\ Len(timers) + Cardinality({id \in AllIds : Present(store[id])})
           <= MaxTimers
    /\ lock = 0
    /\ lock' = c
    /\ phase' = "restoring"
    /\ thr' = [thr EXCEPT ![c] = [IdleThread EXCEPT !.op = "Restore",
                                                    !.pc = "rs_scan"]]
    /\ UNCHANGED <<now, store, pending, timers, ops, minted, issued, fired,
                   routerLog, tokenLog, storageFaulty, routerFaulty,
                   outage, hist>>

\* RestoreScan as it would be if the error return of the key scan did not
\* release pendingLock.
RestoreScanKeepsLock(t) ==
    /\ Settled
    /\ thr[t].pc = "rs_scan"
    /\ \/ /\ StorageFails
          /\ thr' = [thr EXCEPT ![t] = Finish(t, "err_scan", thr[t].eff)]
          /\ lock' = lock
          /\ phase' = "failed"
       \/ /\ UNCHANGED ops
          /\ \E q \in Orders(KeysUnder(<<>>)) :
               thr' = [thr EXCEPT ![t].pc = "rs_load", ![t].keys = q,
                                  ![t].idx = 0]
          /\ UNCHANGED <<lock, phase>>
    /\ UNCHANGED <<now, store, pending, timers, minted, issued, fired,
                   routerLog, tokenLog, storageFaulty, routerFaulty,
                   outage, hist>>

\* CollectKeys(m.view)
RestoreScan(t) ==
    /\ Settled
    /\ thr[t].pc = "rs_scan"
    /\ \/ /\ StorageFails
          /\ thr' = [thr EXCEPT ![t] = Finish(t, "err_scan", thr[t].eff)]
          /\ lock' = 0
          /\ phase' = "failed"
       \/ /\ UNCHANGED ops
          /\ \E q \in Orders(KeysUnder(<<>>)) :
               thr' = [thr EXCEPT ![t].pc = "rs_load", ![t].keys = q,
                                  ![t].idx = 0]
          /\ UNCHANGED <<lock, phase>>
    /\ UNCHANGED <<now, store, pending, timers, minted, issued, fired,
                   routerLog, tokenLog, storageFaulty, routerFaulty,
                   outage, hist>>

\* RestoreLoad as it would be without the clamp of the remaining time to
\* minRevokeDelay: the timer of an expired entry is due in the past.
RestoreLoadNoClamp(t) ==
    /\ Settled
    /\ thr[t].pc = "rs_load"
    /\ IF thr[t].idx >= Len(thr[t].keys)
       THEN /\ thr' = [thr EXCEPT ![t] = Finish(t, "ok", thr[t].eff)]
            /\ lock' = 0
            /\ phase' = "running"
            /\ UNCHANGED <<timers, pending, ops>>
       ELSE LET id == thr[t].keys[thr[t].idx + 1]
                le == store[id]
                expires == le.expire - now
            IN
            \/ /\ StorageFails
               /\ thr' = [thr EXCEPT ![t] = Finish(t, "err_load", thr[t].eff)]
               /\ lock' = 0
               /\ phase' = "failed"
               /\ UNCHANGED <<timers, pending>>
            \/ /\ UNCHANGED ops
               /\ IF ~Present(le) \/ IsZero(le.expire)
                  THEN /\ thr' = [thr EXCEPT ![t].idx = @ + 1]
                       /\ UNCHANGED <<timers, pending>>
                  ELSE /\ Len(timers) < MaxTimers
                       /\ timers' = Append(timers, NewTimer(id, expires))
                       /\ pending' = [pending EXCEPT ![id] = Len(timers) + 1]
                       /\ thr' = [thr EXCEPT ![t].idx = @ + 1,
                                             ![t].eff = @ \cup {<<"arm", id>>}]
               /\ UNCHANGED <<lock, phase>>
    /\ UNCHANGED <<now, store, minted, issued, fired, routerLog, tokenLog,
                   storageFaulty, routerFaulty, outage, hist>>

\* One round of the loop over the keys: load the entry and arm its timer;
\* after the last key, the return, which releases the lock.
RestoreLoad(t) ==
    /\ Settled
    /\ thr[t].pc = "rs_load"
    /\ IF thr[t].idx >= Len(thr[t].keys)
       THEN /\ thr' = [thr EXCEPT ![t] = Finish(t, "ok", thr[t].eff)]
            /\ lock' = 0
            /\ phase' = "running"
            /\ UNCHANGED <<timers, pending, ops>>
       ELSE LET id == thr[t].keys[thr[t].idx + 1]
                le == store[id]
                expires == IF le.expire - now <= 0 THEN minRevokeDelay
                           ELSE le.expire - now
            IN
            \/ /\ StorageFails
               /\ thr' = [thr EXCEPT ![t] = Finish(t, "err_load", thr[t].eff)]
               /\ lock' = 0
               /\ phase' = "failed"
               /\ UNCHANGED <<timers, pending>>
            \/ /\ UNCHANGED ops
               /\ IF ~Present(le) \/ IsZero(le.expire)
                  THEN /\ thr' = [thr EXCEPT ![t].idx = @ + 1]
                       /\ UNCHANGED <<timers, pending>>
                  ELSE /\ Len(timers) < MaxTimers
                       /\ timers' = Append(timers, NewTimer(id, expires))
                       /\ pending' = [pending EXCEPT ![id] = Len(timers) + 1]
                       /\ thr' = [thr EXCEPT ![t].idx = @ + 1,
                                             ![t].eff = @ \cup {<<"arm", id>>}]
               /\ UNCHANGED <<lock, phase>>
    /\ UNCHANGED <<now, store, minted, issued, fired, routerLog, tokenLog,
                   storageFaulty, routerFaulty, outage, hist>>

\* ------------------------------------------------------------------- Spec

Next ==
    \/ \E c \in Clients :
        \/ RegisterCall(c)
        \/ RevokeCall(c)
        \/ RenewCall(c)
        \/ RevokePrefixCall(c)
        \/ Stop(c)
        \/ RestoreCall(c)
    \/ \E t \in Threads :
        \/ RegisterPersist(t)
        \/ RegisterArm(t)
        \/ RevokeLoad(t)
        \/ revokeEntry(t)
        \/ RevokeDelete(t)
        \/ RevokeClear(t)
        \/ RenewLoad(t)
        \/ renewEntry(t)
        \/ RenewPersist(t)
        \/ RenewReset(t)
        \/ RevokePrefixScan(t)
        \/ RestoreScan(t)
        \/ RestoreLoad(t)
        \/ expireClear(t)
        \/ expireWake(t)
        \/ Return(t)
    \/ \E k \in 1..MaxTimers : TimerFire(k)
    \/ Tick
    \/ Jump

Spec == Init /\ [][Next]_vars

\* The manager with Register as the only operation called: leases are
\* registered (or restored at startup) and left alone until they expire.
NextExpire ==
    \/ \E c \in Clients :
        \/ RegisterCall(c)
        \/ RestoreCall(c)
    \/ \E t \in Threads :
        \/ RegisterPersist(t)
        \/ RegisterArm(t)
        \/ RestoreScan(t)
        \/ RestoreLoad(t)
        \/ expireClear(t)
        \/ RevokeLoad(t)
        \/ revokeEntry(t)
        \/ RevokeDelete(t)
        \/ RevokeClear(t)
        \/ expireWake(t)
        \/ Return(t)
    \/ \E k \in 1..MaxTimers : TimerFire(k)
    \/ Tick
    \/ Jump

\* What a started call or callback does next: every step but the start of
\* a call by a requester.
Running(t) ==
    \/ RegisterPersist(t)
    \/ RegisterArm(t)
    \/ RestoreScan(t)
    \/ RestoreLoad(t)
    \/ expireClear(t)
    \/ RevokeLoad(t)
    \/ revokeEntry(t)
    \/ RevokeDelete(t)
    \/ RevokeClear(t)
    \/ expireWake(t)
    \/ Return(t)

\* The scheduler runs every goroutine that can run, the runtime fires every
\* timer that is due, and time passes.
FairExpire ==
    /\ \A t \in Threads : WF_vars(Running(t))
    /\ WF_vars(\E k \in 1..MaxTimers : TimerFire(k))
    /\ WF_vars(Tick \/ Jump)

SpecExpire == Init /\ [][NextExpire]_vars /\ FairExpire

\* What a started call or callback does next, in any operation.
Proceeds(t) ==
    \/ Running(t)
    \/ RenewLoad(t)
    \/ renewEntry(t)
    \/ RenewPersist(t)
    \/ RenewReset(t)
    \/ RevokePrefixScan(t)

\* The scheduler runs every goroutine that can run, the runtime fires every
\* timer that is due, and time passes.
FairNext ==
    /\ \A t \in Threads : WF_vars(Proceeds(t))
    /\ WF_vars(\E k \in 1..MaxTimers : TimerFire(k))
    /\ WF_vars(Tick \/ Jump)

\* The manager constructed over an empty store or over one lease that has
\* not expired, with a router that does not fail.
InitFair ==
    /\ Init
    /\ store[OldID] \in {NilEntry,
                         MkEntry(<<"a">>, "", 1, 0, StartTime + 1, FALSE)}
    /\ ~routerFaulty

SpecFair == InitFair /\ [][Next]_vars /\ FairNext

\* Storage at start-up with several leases registered before the restart,
\* all still running.
PrefixStores ==
    { f \in [AllIds -> BOOLEAN] : Cardinality({k \in AllIds : f[k]}) <= MaxTimers }

\* The manager constructed over a store of leases under the paths "a" and
\* "ab"; no lease is registered any more.
InitPrefix ==
    /\ now = StartTime
    /\ \E f \in PrefixStores :
          store = [k \in AllIds |->
                      IF f[k]
                      THEN MkEntry(PathOf(k), "", 1, 0, StartTime + 1, FALSE)
                      ELSE NilEntry]
    /\ pending = [k \in AllIds |-> 0]
    /\ timers = <<>>
    /\ lock = 0
    /\ thr = [t \in Threads |-> IdleThread]
    /\ phase = "new"
    /\ ops = 0
    /\ minted = MaxLeases
    /\ issued = AllIds
    /\ fired = 0
    /\ routerLog = [k \in AllIds |-> 0]
    /\ tokenLog = [k \in AllIds |-> 0]
    /\ storageFaulty \in BOOLEAN
    /\ routerFaulty \in BOOLEAN
    /\ ~(storageFaulty /\ routerFaulty)
    /\ outage = FALSE
    /\ hist = NoHistory

\* The manager with RevokePrefix as the only operation called, by several
\* requesters at once, before any of the leases expires.
NextPrefix ==
    \/ \E c \in Clients :
        \/ RevokePrefixCall(c)
        \/ RestoreCall(c)
    \/ \E t \in Threads :
        \/ RevokePrefixScan(t)
        \/ RevokeLoad(t)
        \/ revokeEntry(t)
        \/ RevokeDelete(t)
        \/ RevokeClear(t)
        \/ RestoreScan(t)
        \/ RestoreLoad(t)
        \/ Return(t)

SpecPrefix == InitPrefix /\ [][NextPrefix]_vars

\* Stop called with nothing in progress: the manager is stopped in an
\* orderly way, after its requests and callbacks have drained.
Shutdown(c) == Quiesced /\ Stop(c)

\* The manager constructed while the storage backend, or else the router
\* and the token store, is out: its calls may fail any number of times.
InitOutage ==
    /\ now = StartTime
    /\ store \in InitialStores
    /\ pending = [k \in AllIds |-> 0]
    /\ timers = <<>>
    /\ lock = 0
    /\ thr = [t \in Threads |-> IdleThread]
    /\ phase = "new"
    /\ ops = IF Present(store[OldID]) THEN 1 ELSE 0
    /\ minted = IF Present(store[OldID]) THEN 1 ELSE 0
    /\ issued = {OldID}
    /\ fired = 0
    /\ routerLog = [k \in AllIds |-> 0]
    /\ tokenLog = [k \in AllIds |-> 0]
    /\ storageFaulty \in BOOLEAN
    /\ routerFaulty = ~storageFaulty
    /\ outage = TRUE
    /\ hist = NoHistory

\* The manager with leases registered (or restored at startup) and left
\* alone until they expire, and restarted in an orderly way.
NextOutage ==
    \/ \E c \in Clients :
        \/ RegisterCall(c)
        \/ Shutdown(c)
        \/ RestoreCall(c)
    \/ \E t \in Threads :
        \/ RegisterPersist(t)
        \/ RegisterArm(t)
        \/ RestoreScan(t)
        \/ RestoreLoad(t)
        \/ expireClear(t)
        \/ RevokeLoad(t)
        \/ revokeEntry(t)
        \/ RevokeDelete(t)
        \/ RevokeClear(t)
        \/ expireWake(t)
        \/ Return(t)
    \/ \E k \in 1..MaxTimers : TimerFire(k)
    \/ Tick
    \/ Jump

SpecOutage == InitOutage /\ [][NextOutage]_vars /\ FairExpire

\* ================================================================ claims

\* Some thread is in the middle of an operation that concerns lease id: a
\* call or a timer callback for the id, or a RevokePrefix over its prefix.
Busy(id) ==
    \E t \in Threads :
        /\ thr[t].pc # "idle"
        /\ \/ thr[t].id = id
           \/ thr[t].op = "RevokePrefix" /\ HasPrefix(id, thr[t].prefix)

\* The lease ids that have a timer in the pending table.
PendingIds == {id \in AllIds : pending[id] # 0}

\* C1: while the manager is running, a lease id that no operation and no
\* timer-driven revocation is in the middle of is in the pending table if
\* and only if storage holds an entry for it with a non-zero expire time.
C1_PendingIffStored ==
    phase = "running" =>
        \A id \in AllIds :
            ~Busy(id) =>
                (pending[id] # 0 <=>
                    Present(store[id]) /\ ~IsZero(store[id].expire))

\* Thread t is an explicit Revoke that is returning success.
RevokeReturnsOk(t) ==
    thr[t].op = "Revoke" /\ thr[t].pc = "done" /\ thr[t].res = "ok"

\* Some thread other than t is in a Revoke of lease id (explicit, of a
\* RevokePrefix or of a timer callback).
OtherRevoke(t, id) ==
    \E u \in Threads \ {t} :
        /\ thr[u].pc # "idle"
        /\ thr[u].id = id
        /\ thr[u].op \in {"Revoke", "RevokePrefix", "expireID"}

\* C3: when a Revoke(id) of a registered lease returns success, storage
\* holds no entry under id and the pending table has no timer for id (here
\* for a Revoke that no other Revoke of the same id overlaps).
C3_RevokedIsGone ==
    \A t \in Threads :
        RevokeReturnsOk(t) /\ ~OtherRevoke(t, thr[t].id) =>
            ~Present(store[thr[t].id]) /\ pending[thr[t].id] = 0

\* C4: a Revoke(id) that starts after a Revoke(id) has returned success
\* finds no entry: it sends nothing to the router or the token store and
\* neither deletes an entry nor touches the pending table.
C4_LaterRevokeIsNoOp ==
    \A t \in Threads :
        thr[t].late => thr[t].pc \notin {"rv_dispatch", "rv_delete", "rv_clear"}

\* C5: from a quiesced state, Stop and then Restore leave the pending
\* table with the same set of lease ids as it had just before Stop.
C5_RestartKeepsPending ==
    \A t \in Threads :
        /\ thr[t].op = "Restore" /\ thr[t].pc = "done" /\ thr[t].res = "ok"
        /\ hist.stop.called /\ hist.stop.quiet
        => PendingIds = hist.stop.ids

\* C7: once Renew has returned a new lease for a lease whose timer was
\* pending, no timer callback dispatches the revocation of the renewed
\* entry before the entry's new expire time.
C7_NoEarlyExpiry ==
    \A t \in Threads :
        /\ thr[t].op = "expireID" /\ thr[t].pc = "rv_dispatch"
        /\ thr[t].id \in hist.renewed /\ thr[t].le.renewed
        => now >= thr[t].le.expire

\* C10: after a Stop that returned with nothing in progress, and until
\* Restore is called, the pending table is empty, storage is as it was
\* before Stop and no timer callback begins (here for a manager that was
\* never stopped with anything in progress).
C10_StopStopsExpiry ==
    phase = "stopped" /\ hist.stop.quiet /\ ~hist.unclean =>
        /\ PendingIds = {}
        /\ store = hist.stop.store
        /\ \A t \in Threads : thr[t].op # "expireID"

\* What a call has done that changed storage or a timer.
Writes(eff) == {e \in eff : e[1] \in {"put", "delete", "reset", "stop", "arm"}}

\* Thread t takes a step.
Steps(t) == thr'[t] # thr[t]

\* A Renew that returns not-found found no entry, one that returns expired
\* found an entry with an expire time before now, and neither has sent
\* anything to the router; a Renew that returns anything but a new lease
\* has written neither the entry nor the timer.
C8_Done ==
    \A t \in Threads :
        thr[t].op = "Renew" /\ thr[t].pc = "done" =>
            /\ thr[t].res = "not_found" =>
                    ~Present(store[thr[t].id]) /\ thr[t].eff = {}
            /\ thr[t].res = "expired" =>
                    /\ Present(store[thr[t].id])
                    /\ store[thr[t].id].expire < now
                    /\ thr[t].eff = {}
            /\ thr[t].res # "ok" => Writes(thr[t].eff) = {}

\* The steps of a Renew: after the load, a missing entry makes it return
\* not-found and an entry expired before now makes it return expired
\* (unless the load itself fails); the step on which it returns an error
\* or a response without a lease changes neither storage nor a timer nor
\* the pending table.
C8_Step ==
    \A t \in Threads :
        thr[t].op = "Renew" /\ Steps(t) =>
            /\ thr[t].pc = "rn_load" /\ ~Present(store[thr[t].id]) =>
                    /\ thr'[t].pc = "done"
                    /\ thr'[t].res \in {"not_found", "err_load"}
            /\ /\ thr[t].pc = "rn_load"
               /\ Present(store[thr[t].id])
               /\ store[thr[t].id].expire < now
               => /\ thr'[t].pc = "done"
                  /\ thr'[t].res \in {"expired", "err_load"}
            /\ thr'[t].pc = "done" /\ thr'[t].res # "ok" =>
                    UNCHANGED <<store, pending, timers>>

\* C8: Renew fails with not-found when storage has no entry for the id and
\* with expired when the stored expire time is before now, without sending
\* anything to the router; and a Renew that returns an error, or a
\* response without a secret or with a zero lease, has left the stored
\* entry, the timers and the pending table as they were.
C8_RenewFailureChangesNothing == []C8_Done /\ [][C8_Step]_vars

\* A Renew returns the router's response without a lease for a stored lease
\* that has a timer.
C8_Witness ==
    \E t \in Threads :
        /\ thr[t].op = "Renew" /\ thr[t].pc = "done"
        /\ thr[t].res = "declined"
        /\ Present(store[thr[t].id])
        /\ pending[thr[t].id] # 0

\* An explicit Revoke that returns the error of its dispatch has deleted no
\* entry and stopped no timer.
C9_Done ==
    \A t \in Threads :
        thr[t].op = "Revoke" /\ thr[t].pc = "done"
                             /\ thr[t].res = "err_revoke" =>
            thr[t].eff = {}

\* The dispatch step of an explicit Revoke: a failed dispatch (one more
\* failure among the events) makes Revoke return that error at once, and
\* the step on which Revoke returns changes neither storage nor a timer
\* nor the pending table.
C9_Step ==
    \A t \in Threads :
        thr[t].op = "Revoke" /\ thr[t].pc = "rv_dispatch" /\ Steps(t) =>
            /\ ops' # ops =>
                    thr'[t].pc = "done" /\ thr'[t].res = "err_revoke"
            /\ thr'[t].pc = "done" =>
                    /\ thr'[t].res = "err_revoke"
                    /\ UNCHANGED <<store, pending, timers>>

\* C9: when the backend dispatch inside an explicit Revoke fails, Revoke
\* returns that error and changes nothing: the entry, its timer and the
\* pending table are as they were.
C9_FailedRevokeChangesNothing == []C9_Done /\ [][C9_Step]_vars

\* An explicit Revoke returns the error of its dispatch; the entry is
\* stored and its timer is armed and in the pending table.
C9_Witness ==
    \E t \in Threads :
        /\ thr[t].op = "Revoke" /\ thr[t].pc = "done"
        /\ thr[t].res = "err_revoke"
        /\ Present(store[thr[t].id])
        /\ pending[thr[t].id] # 0
        /\ timers[pending[thr[t].id]].armed

\* Register is returning lease id to its caller.
RegisterReturns(id) ==
    \E t \in Threads :
        /\ thr[t].op = "Register" /\ thr[t].pc = "done"
        /\ thr[t].res = "ok" /\ thr[t].id = id

\* The lease has expired: its timer callback has revoked it, storage has
\* no entry for it, the pending table has no timer for it and the router
\* has received one revoke request for it.
Expired(id) ==
    /\ id \in hist.revoked
    /\ ~Present(store[id])
    /\ pending[id] = 0
    /\ routerLog[id] = 1
    /\ tokenLog[id] = 0

RevokePrefixReturns(t) == thr[t].op = "RevokePrefix" /\ thr[t].pc = "done"

\* The RevokePrefix of thread t returns the error of the Revoke of the
\* lease at position idx + 1 of its scan, names that lease, has removed the
\* leases before it and has touched none after it, nor deleted it.
NamesFirstFailure(t) ==
    LET q == thr[t].keys
        i == thr[t].idx
    IN  /\ thr[t].res \in {"err_load", "err_revoke", "err_delete"}
        /\ i + 1 <= Len(q)
        /\ thr[t].id = q[i + 1]
        /\ \A j \in 1..i : ~Present(store[q[j]])
        /\ <<"delete", q[i + 1]>> \notin thr[t].eff
        /\ \A j \in (i + 2)..Len(q) :
               \A e \in thr[t].eff : e[2] # q[j]

\* The RevokePrefix of thread t returns success and storage has no entry
\* under its prefix, which ends in "/".
RemovedAll(t) ==
    /\ thr[t].res = "ok"
    /\ HasSlash(thr[t].prefix)
    /\ KeysUnder(thr[t].prefix) = {}

Dispatches(t) == thr[t].pc = "rv_dispatch" /\ Steps(t)

\* One revocation of an entry takes one dispatch path, chosen by the
\* entry: the token store for an entry with a login token, else the
\* router; and nothing else sends a revocation.
C11_OnePath ==
    /\ \A t \in Threads :
         Dispatches(t) =>
            IF thr[t].le.loginToken # ""
            THEN /\ tokenLog' = [tokenLog EXCEPT ![thr[t].id] = @ + 1]
                 /\ routerLog' = routerLog
            ELSE /\ routerLog' = [routerLog EXCEPT ![thr[t].id] = @ + 1]
                 /\ tokenLog' = tokenLog
    /\ tokenLog' # tokenLog \/ routerLog' # routerLog =>
         \E t \in Threads : Dispatches(t)

\* Thread t is an explicit Revoke that is returning.
RevokeReturns(t) == thr[t].op = "Revoke" /\ thr[t].pc = "done"

\* C11 as stated: Revoke returns an error exactly when the dispatch or the
\* delete that follows it fails.
C11_ErrorIffDispatchOrDelete ==
    \A t \in Threads :
        RevokeReturns(t) =>
            (thr[t].res # "ok" <=> thr[t].res \in {"err_revoke", "err_delete"})

\* What an explicit Revoke returns and what it has done by then: the error
\* of the load before any dispatch, the error of the dispatch before any
\* delete, the error of the delete after the dispatch, or success.
C11_Done ==
    \A t \in Threads :
        RevokeReturns(t) =>
            /\ thr[t].res \in {"ok", "err_load", "err_revoke", "err_delete"}
            /\ thr[t].res \in {"err_load", "err_revoke"} => thr[t].eff = {}
            /\ thr[t].res = "err_delete" =>
                   thr[t].eff = {<<"revoke", thr[t].id>>}

\* An explicit Revoke returns an error on the step on which one of its
\* calls fails (one more failure among the events), and only then.
C11_Errors ==
    \A t \in Threads :
        thr[t].op = "Revoke" /\ thr[t].pc # "done" /\ Steps(t) =>
            (ops' # ops <=> thr'[t].pc = "done" /\ thr'[t].res # "ok")

\* C11, amended: revocation of an entry uses exactly one dispatch path
\* chosen by the entry's login token, and Revoke returns an error exactly
\* when the load of the entry, that dispatch or the delete after it fails.
C11_OnePathAndErrors == []C11_Done /\ [][C11_OnePath /\ C11_Errors]_vars

\* A Revoke of a login-token lease returns success: one call went to the
\* token store, none to the router.
C11_Witness ==
    \E t \in Threads :
        /\ RevokeReturns(t) /\ thr[t].res = "ok"
        /\ <<"revoke", thr[t].id>> \in thr[t].eff
        /\ tokenLog[thr[t].id] = 1
        /\ routerLog[thr[t].id] = 0

\* Thread t is a Renew that is returning.
RenewReturns(t) == thr[t].op = "Renew" /\ thr[t].pc = "done"

\* C12: of a Renew and the timer-driven expiry of the same lease, one
\* wins: once the expiry has revoked the lease, a Renew that returns has
\* failed (not-found or expired), and a Renew that returns a new lease
\* leaves a lease that has not been revoked.
C12_RenewOrExpiry ==
    \A t \in Threads :
        RenewReturns(t) /\ thr[t].id \in hist.expired => thr[t].res # "ok"


\* Thread t runs the callback of a timer that has fired.
Expiring(t) == thr[t].op = "expireID"

\* C13 (the bound): a callback is never in a seventh Revoke; it ends either
\* by a successful Revoke, which was one of the six, or abandoned after six
\* failed ones, and then the entry of the lease is still in storage and its
\* id is not in the pending table. A Restore that succeeds has armed a
\* timer for every stored entry with an expiry, the abandoned ones among
\* them.
C13_Done ==
    \A t \in Threads :
        /\ Expiring(t) /\ thr[t].pc # "done" =>
               thr[t].attempt < maxRevokeAttempts
        /\ Expiring(t) /\ thr[t].pc = "done" =>
               \/ /\ thr[t].res = "revoked"
                  /\ thr[t].attempt < maxRevokeAttempts
               \/ /\ thr[t].res = "abandoned"
                  /\ thr[t].attempt = maxRevokeAttempts
                  /\ Present(store[thr[t].id])
                  /\ pending[thr[t].id] = 0
        /\ thr[t].op = "Restore" /\ thr[t].pc = "done" /\ thr[t].res = "ok" =>
               \A id \in AllIds :
                   Present(store[id]) /\ ~IsZero(store[id].expire) =>
                       <<"arm", id>> \in thr[t].eff /\ pending[id] # 0

\* C13 (the loop): a callback starts another Revoke only after the one
\* before has failed, and a Revoke that succeeds ends the callback.
C13_Step ==
    \A t \in Threads :
        Expiring(t) /\ Steps(t) =>
            /\ thr[t].pc # "done" /\ thr'[t].attempt # thr[t].attempt =>
                   thr[t].pc = "ex_sleep" /\ thr[t].res # "ok"
            /\ thr'[t].pc = "rv_load" =>
                   thr[t].pc \in {"ex_clear", "ex_sleep"}
            /\ thr[t].pc = "rv_clear" => thr'[t].pc = "done"
            /\ thr[t].pc = "done" => thr'[t] = IdleThread

\* C13 (termination): every callback returns.
C13_Terminates ==
    \A t \in Threads : Expiring(t) ~> ~Expiring(t)

\* C13: one fire of a timer makes at most maxRevokeAttempts calls of
\* Revoke, none after the first that succeeds, and always terminates; a
\* lease whose six attempts all failed is abandoned with its entry stored
\* and its id out of the pending table, and the next Restore arms a timer
\* for it again.
C13_BoundedRetries ==
    []C13_Done /\ [][C13_Step]_vars /\ C13_Terminates

\* A restart has armed a timer again for a lease abandoned after six
\* requests that the router failed.
C13_Witness ==
    \E t \in Threads :
        /\ thr[t].op = "Restore" /\ thr[t].pc = "done" /\ thr[t].res = "ok"
        /\ \E id \in AllIds :
            /\ routerLog[id] = maxRevokeAttempts
            /\ Present(store[id])
            /\ <<"arm", id>> \in thr[t].eff
            /\ pending[id] # 0 /\ timers[pending[id]].armed


\* C14: the backoff sleeps lie between consecutive attempts: a callback
\* that sleeps after its failed attempt k (counted from 0) sleeps
\* revokeRetryBase * 2^k and has another attempt to come, so that six
\* failed attempts sleep five times and the last one is not slept after.
C14_SleepsBetweenAttempts ==
    \A t \in Threads :
        Expiring(t) /\ thr[t].pc = "ex_sleep" =>
            /\ thr[t].wake <= now + (2 ^ thr[t].attempt) * revokeRetryBase
            /\ thr[t].attempt + 1 < maxRevokeAttempts


\* Thread t is a Restore that is returning.
RestoreReturns(t) == thr[t].op = "Restore" /\ thr[t].pc = "done"

\* The stored leases that expire.
Restorable == {id \in AllIds : Present(store[id]) /\ ~IsZero(store[id].expire)}

\* The timers created for lease id.
TimersOf(id) == {k \in 1..Len(timers) : timers[k].id = id}

\* The entry was already expired when the manager was constructed.
ExpiredAtStartup(le) == Present(le) /\ ~IsZero(le.expire) /\ le.expire < StartTime

\* C15 (the table): when the first Restore of a manager returns success,
\* the ids of the pending table are exactly the stored entries with an
\* expiry, each with the one timer created for it.
C15_Done ==
    \A t \in Threads :
        RestoreReturns(t) /\ thr[t].res = "ok" /\ ~hist.stop.called =>
            /\ PendingIds = Restorable
            /\ \A id \in PendingIds : TimersOf(id) = {pending[id]}
            /\ \A id \in AllIds \ PendingIds : TimersOf(id) = {}

\* C15 (the timers): no step of Restore changes storage, and the timer a
\* step arms is due at the entry's expire_time when that lies in the future
\* and minRevokeDelay from now otherwise.
C15_Step ==
    \A t \in Threads :
        thr[t].op = "Restore" /\ Steps(t) =>
            /\ store' = store
            /\ timers' # timers =>
                   LET k == Len(timers')
                       id == timers'[k].id
                   IN  /\ timers' = Append(timers, timers'[k])
                       /\ id \in Restorable
                       /\ pending' = [pending EXCEPT ![id] = k]
                       /\ timers'[k].armed
                       /\ timers'[k].due =
                              IF store[id].expire > now THEN store[id].expire
                              ELSE now + minRevokeDelay

C15_NotEarly ==
    \A t \in Threads :
        Expiring(t) /\ ExpiredAtStartup(store[thr[t].id]) =>
            /\ now >= StartTime + minRevokeDelay
            /\ ~routerFaulty /\ ~storageFaulty /\ thr[t].pc = "rv_dispatch" =>
                   routerLog[thr[t].id] + tokenLog[thr[t].id] = 0

\* C15 (the expired entry, no call failing): once Restore has succeeded the
\* entry is eventually revoked, and stays revoked by one request.
C15_Expires ==
    (/\ ~routerFaulty /\ ~storageFaulty
     /\ ExpiredAtStartup(store[OldID])
     /\ \E t \in Threads : RestoreReturns(t) /\ thr[t].res = "ok")
        ~> [](Expired(OldID))

C16_FailedRestoreArmsNothing ==
    \A t \in Threads :
        RestoreReturns(t) /\ thr[t].res # "ok" =>
            \A id \in AllIds :
                pending[id] = 0 \/ ~timers[pending[id]].armed


\* The next step of thread t is a call of storage (get, put, delete, key
\* listing) or a dispatch to the router or the token store.
AtIO(t) ==
    thr[t].pc \in {"reg_persist", "rv_load", "rv_dispatch", "rv_delete",
                   "rn_load", "rn_route", "rn_persist", "rp_scan",
                   "rs_scan", "rs_load"}

\* C17 as stated: no thread holds the mutex of the pending table while it
\* calls storage, the router or the token store, Restore included.
C17_NoIOUnderLock ==
    \A t \in Threads : lock = t => ~AtIO(t)

\* C17, amended (the holder): a thread that holds the mutex while it calls
\* storage, the router or the token store is a Restore, which holds it
\* from its first statement to its return.
C17_OnlyRestoreHolds ==
    \A t \in Threads :
        /\ lock = t /\ AtIO(t) => thr[t].op = "Restore"
        /\ thr[t].op = "Restore" /\ thr[t].pc # "done" => lock = t

\* C17, amended (the table): the pending table changes only in a step of
\* the thread that holds the mutex, or in a critical section entered with
\* the mutex free and left in the same step.
C17_TableUnderLock ==
    pending' # pending =>
        \/ lock = 0 /\ lock' = 0
        \/ lock # 0 /\ Steps(lock)

\* C17, amended: outside Restore the mutex is held only around reads and
\* writes of the pending table, never across a call of storage, of the
\* router or of the token store; Restore holds it across its key listing
\* and its loads.
C17_LockOnlyAroundTable ==
    []C17_OnlyRestoreHolds /\ [][C17_TableUnderLock]_vars

\* A timer callback is about to call storage or the router without the
\* mutex, which a Restore holds while it loads an entry.
C17_Witness ==
    \E t, u \in Threads :
        /\ lock = t /\ thr[t].pc = "rs_load"
        /\ Expiring(u) /\ AtIO(u)


\* C18: a Renew of a stored lease that does not expire (expire_time zero)
\* goes to the router and succeeds when the router grants a lease: it is
\* not refused as a Renew of an expired lease.
C18_RenewsNonExpiring ==
    \A t \in Threads :
        /\ RenewReturns(t)
        /\ Present(store[thr[t].id]) /\ IsZero(store[thr[t].id].expire)
        => thr[t].res # "expired"


\* C19: the timer of an id of the pending table is the only armed timer of
\* the id and, when no operation and no callback is at work on the lease,
\* is not due before the expire_time of the stored entry; no timer is armed
\* for an id that is not in the table (here: when every Stop was called
\* with nothing in progress).
C19_OneTimerPerPendingId ==
    ~hist.unclean =>
        /\ \A id \in PendingIds :
               /\ {k \in TimersOf(id) : timers[k].armed} \subseteq {pending[id]}
               /\ timers[pending[id]].armed /\ Present(store[id]) /\ ~Busy(id) =>
                      timers[pending[id]].due >= store[id].expire
        /\ \A k \in 1..Len(timers) :
               timers[k].armed => pending[timers[k].id] = k

\* C20 (the holder): the thread that holds the mutex is in the middle of
\* the operation that took it, at a point where it takes no mutex: it has
\* not returned with the mutex held, and it does not acquire it again.
C20_Holder ==
    lock # 0 =>
        /\ thr[lock].op = "Restore"
        /\ thr[lock].pc \in {"rs_scan", "rs_load"}

\* C20 (acquire and release): the mutex is taken only when it is free, by
\* the thread that takes the step, and given back only by its holder, at
\* the return of the holder's operation, with or without an error.
C20_Step ==
    lock' # lock =>
        \/ lock = 0 /\ Steps(lock') /\ thr[lock'].pc = "idle"
        \/ lock # 0 /\ lock' = 0 /\ Steps(lock) /\ thr'[lock].pc = "done"

\* C20 (termination): every operation and every timer callback that has
\* started returns and the mutex is released: the run, whose requests and
\* timer fires are finitely many, comes to rest with nothing in progress
\* and the mutex free.
C20_Terminates == <>[](Quiesced /\ lock = 0)

\* C20: the manager never deadlocks on the mutex of the pending table: no
\* thread acquires it while holding it, every acquisition is followed by a
\* release on every path, and every operation and timer callback
\* terminates when the calls of storage and of the router return.
C20_NoDeadlock ==
    []C20_Holder /\ [][C20_Step]_vars /\ C20_Terminates

\* A Restore returns an error with the mutex released, while a timer
\* callback waits for the mutex to clear its id.
C20_Witness ==
    \E t, u \in Threads :
        /\ RestoreReturns(t) /\ thr[t].res # "ok"
        /\ lock = 0
        /\ thr[u].pc = "ex_clear"

====
